---------------------------- MODULE Spec2Model ----------------------------
(***************************************************************************)
(* The market-data pipeline and arbitrage scanner of the flashloan         *)
(* repository: source connectors normalise venue messages and put them on  *)
(* an asyncio queue, data_consumer hands every record to                   *)
(* ArbitrageDetector.update_data, and ArbitrageDetector.run_detection      *)
(* scans the stored quotes once per update_interval.                       *)
(*                                                                         *)
(* Python values are tagged records (None, a number, a string); a Python   *)
(* dict is the sequence of its <<key, value>> pairs in insertion order.    *)
(* Floating point numbers are the exact rationals they stand for; every    *)
(* input set holds non-negative prices only.                               *)
(***************************************************************************)
EXTENDS Integers, Sequences, FiniteSets, TLC

(***************************************************************************)
(* Bounds of the exploration.                                              *)
(***************************************************************************)
\* Records the producers put on the queue in one run.
MaxTicks == 3
\* ArbitrageDetector(history_window=...): the constructor takes any value
\* (10 by default, 5 in integration.py); the exploration scales it down.
history_window == 2

(***************************************************************************)
(* Constructor arguments of ArbitrageDetector (their defaults) and of the  *)
(* queue.                                                                  *)
(***************************************************************************)
spread_threshold == 1
min_volume == 50
\* volatility_factor = 1.5 = volatility_factor_num / volatility_factor_den
volatility_factor_num == 3
volatility_factor_den == 2
\* asyncio.Queue() is built without a maxsize: 0, "the queue size is infinite"
maxsize == 0
\* ArbitrageDetector(latency_threshold=1.0), in seconds
latency_threshold == 1
\* predict_signal confirms when probability > 0.7 (here in percent)
ml_confirm_pct == 70

(***************************************************************************)
(* Python values.                                                          *)
(***************************************************************************)
None == [t |-> "None", n |-> 0, s |-> ""]
Num(x) == [t |-> "num", n |-> x, s |-> ""]
Str(x) == [t |-> "str", n |-> 0, s |-> x]
IsNone(v) == v.t = "None"
IsNum(v) == v.t = "num"

\* round(num / den, k) as an integer count of 10^-k units, num already
\* scaled by 10^k: Python rounds half to even.
RoundHalfEven(num, den) ==
    LET q == num \div den
        r == num % den
    IN  IF 2 * r < den THEN q
        ELSE IF 2 * r > den THEN q + 1
        ELSE IF q % 2 = 0 THEN q ELSE q + 1

(***************************************************************************)
(* Python dicts: insertion-ordered <<key, value>> pairs.                   *)
(***************************************************************************)
DictKeys(d) == {d[i][1] : i \in 1..Len(d)}
DictHas(d, k) == \E i \in 1..Len(d) : d[i][1] = k
DictIdx(d, k) == CHOOSE i \in 1..Len(d) : d[i][1] = k
DictGet(d, k) == d[DictIdx(d, k)][2]
\* d[k] = v: an existing key keeps its place, a new key goes last
DictSetAppending(d, k, v) == Append(d, <<k, v>>)
DictSet(d, k, v) ==
    IF DictHas(d, k) THEN [d EXCEPT ![DictIdx(d, k)] = <<k, v>>]
    ELSE Append(d, <<k, v>>)

(***************************************************************************)
(* utils/normalization.py: normalize_data.  A raw venue message is the     *)
(* record of the fields the normaliser reads (sym, px, vol, time), None    *)
(* for a key the message does not carry; float() of a string that is no    *)
(* number raises, and the except branch returns what was set so far.       *)
(***************************************************************************)
Record(exchange, asset, price, volume, timestamp) ==
    [exchange |-> exchange, asset |-> asset, price |-> price,
     volume |-> volume, timestamp |-> timestamp]

\* dict.get(key, default)
GetOr(v, default) == IF IsNone(v) THEN default ELSE v

normalize_binance(data) ==
    LET asset == GetOr(data.sym, Str("UNKNOWN"))
        c == GetOr(data.px, Num(0))
        v == GetOr(data.vol, Num(0))
        E == GetOr(data.time, Num(0))
    IN  IF ~IsNum(c) THEN Record(Str("binance"), asset, None, None, None)
        ELSE IF ~IsNum(v) THEN Record(Str("binance"), asset, c, None, None)
        ELSE IF ~IsNum(E) THEN Record(Str("binance"), asset, c, v, None)
        \* E is in milliseconds; the inputs carry whole seconds
        ELSE Record(Str("binance"), asset, c, v, Num(E.n \div 1000))

normalize_coinbase(data) ==
    LET asset == GetOr(data.sym, Str("UNKNOWN"))
        p == GetOr(data.px, Num(0))
        v == GetOr(data.vol, Num(0))
    IN  IF ~IsNum(p) THEN Record(Str("coinbase"), asset, None, None, None)
        ELSE IF ~IsNum(v) THEN Record(Str("coinbase"), asset, p, None, None)
        \* data.get("time", ""): the venue's ISO string, never a number
        ELSE Record(Str("coinbase"), asset, p, v, GetOr(data.time, Str("")))

normalize_kraken(data) ==
    LET p == GetOr(data.px, Num(0))
        v == GetOr(data.vol, Num(0))
    IN  IF ~IsNum(p) THEN Record(Str("kraken"), data.sym, None, None, None)
        ELSE IF ~IsNum(v) THEN Record(Str("kraken"), data.sym, p, None, None)
        ELSE Record(Str("kraken"), data.sym, p, v, None)

normalize_data(source, data) ==
    CASE source = "binance" -> normalize_binance(data)
      [] source = "coinbase" -> normalize_coinbase(data)
      [] source = "kraken" -> normalize_kraken(data)
      \* the on-chain record is in the common format already
      [] source = "chainlink" -> [data EXCEPT !.exchange = Str("chainlink")]
      [] OTHER -> Record(Str(source), None, None, None, None)

\* onchain/chainlink.py: get_chainlink_price, put on the queue as it is
get_chainlink_price(price, updatedAt) ==
    Record(Str("chainlink"), Str("ETH-USD"), Num(price), Num(0), Num(updatedAt))

\* arbitrage_detection/main.py: fake_data_producer
fake_data(exchange, asset, price, volume, now) ==
    Record(Str(exchange), Str(asset), Num(price), Num(volume), Num(now))

(***************************************************************************)
(* The state.                                                              *)
(***************************************************************************)
VARIABLES
    queue,            \* data_queue: the records put and not yet got
    latest_prices,    \* detector.latest_prices: asset -> exchange -> quote
    price_history,    \* detector.price_history: asset -> list of prices
    ml_model,         \* detection.ml_model: None, or the loaded classifier
    consumer,         \* where data_consumer stands
    normalized_data,  \* data_consumer's record in hand
    scanner,          \* where run_detection stands
    signals,          \* the signals the latest scan cycle logged
    predict_calls,    \* the assets the latest scan cycle called predict_signal for
    ml_log,           \* what predict_signal logged in the latest cycle: the model's answers
    deliveries,       \* the alerts the latest scan cycle sent, with what came of them
    main_task,        \* main(): awaiting gather(*tasks), ended or interrupted
    puts,             \* history: every record put on the queue, in order
    calls             \* history: every record handed to update_data, in order

store == <<latest_prices, price_history>>
scan_out == <<signals, predict_calls, ml_log, deliveries>>
vars == <<queue, latest_prices, price_history, ml_model, consumer, normalized_data,
          scanner, signals, predict_calls, ml_log, deliveries, main_task, puts, calls>>

(***************************************************************************)
(* The asyncio event loop runs one task at a time and changes task only    *)
(* where the running one awaits something not ready.  data_consumer does   *)
(* so in queue.get() alone: update_data holds no await.                    *)
(***************************************************************************)
YieldsInsideUpdate(pc) == pc \in {"get", "failed", "history"}
Yields(pc) == pc \in {"get", "failed"}

\* main() is awaiting gather(*tasks): the loop runs the tasks
Running == main_task = "gather"

\* run_detection is inside ml_model.predict_proba, smtplib or requests.post:
\* plain calls, not awaited, that keep the loop's only thread until they return
Blocked == scanner = "calls"

(***************************************************************************)
(* asyncio.Queue of main(): put waits while full(), and full() is never    *)
(* true of a queue built with maxsize 0.                                   *)
(***************************************************************************)
full == maxsize > 0 /\ Len(queue) >= maxsize

put(item) ==
    /\ Running
    /\ Yields(consumer)
    /\ ~Blocked
    /\ ~full
    /\ Len(puts) < MaxTicks
    /\ queue' = Append(queue, item)
    /\ puts' = Append(puts, item)
    /\ UNCHANGED <<store, ml_model, consumer, normalized_data, scanner, scan_out,
                   main_task, calls>>

(***************************************************************************)
(* ArbitrageDetector.update_data.                                          *)
(***************************************************************************)
\* lines 88-90: a field that is None
IncompleteIgnoringVolume(nd) ==
    \/ IsNone(nd.asset)
    \/ IsNone(nd.exchange)
    \/ IsNone(nd.price)
    \/ IsNone(nd.timestamp)
Incomplete(nd) ==
    \/ IsNone(nd.asset)
    \/ IsNone(nd.exchange)
    \/ IsNone(nd.price)
    \/ IsNone(nd.volume)
    \/ IsNone(nd.timestamp)

\* calculate_latency: time.time() - ingestion_timestamp raises TypeError
\* unless the timestamp is a number
calculate_latency_raises(ingestion_timestamp) == ~IsNum(ingestion_timestamp)
calculate_latency(ingestion_timestamp, current_time) ==
    current_time - ingestion_timestamp.n

\* lines 96-103
QuoteOf(nd) == [price |-> nd.price, volume |-> nd.volume, timestamp |-> nd.timestamp]

SetQuoteDroppingOthers(lp, nd) ==
    DictSet(lp, nd.asset, <<<<nd.exchange, QuoteOf(nd)>>>>)
SetQuote(lp, nd) ==
    LET by_exchange == IF DictHas(lp, nd.asset) THEN DictGet(lp, nd.asset) ELSE <<>>
    IN  DictSet(lp, nd.asset, DictSet(by_exchange, nd.exchange, QuoteOf(nd)))

\* lines 105-110
AppendPriceNoEviction(ph, nd) ==
    LET h == IF DictHas(ph, nd.asset) THEN DictGet(ph, nd.asset) ELSE <<>>
    IN  DictSet(ph, nd.asset, Append(h, nd.price))
AppendPriceEvictNewest(ph, nd) ==
    LET h == IF DictHas(ph, nd.asset) THEN DictGet(ph, nd.asset) ELSE <<>>
    IN  DictSet(ph, nd.asset,
                IF Len(h) + 1 > history_window THEN h ELSE Append(h, nd.price))
AppendPriceStartingOver(ph, nd) ==
    LET h == IF DictHas(ph, nd.asset) THEN DictGet(ph, nd.asset) ELSE <<>>
        appended == Append(h, nd.price)
    IN  DictSet(ph, nd.asset,
                IF Len(appended) > history_window THEN <<nd.price>> ELSE appended)
AppendPrice(ph, nd) ==
    LET h == IF DictHas(ph, nd.asset) THEN DictGet(ph, nd.asset) ELSE <<>>
        appended == Append(h, nd.price)
    IN  DictSet(ph, nd.asset,
                IF Len(appended) > history_window THEN Tail(appended) ELSE appended)

(***************************************************************************)
(* data_consumer: get a record, hand it to update_data, task_done, again.  *)
(***************************************************************************)
\* queue.get() returns; update_data runs to its first write (lines 82-94)
ConsumerGet ==
    /\ Running
    /\ ~Blocked
    /\ consumer = "get"
    /\ queue # <<>>
    /\ LET nd == Head(queue)
       IN  /\ queue' = Tail(queue)
           /\ normalized_data' = nd
           /\ calls' = Append(calls, nd)
           /\ consumer' = IF Incomplete(nd) THEN "get"
                          ELSE IF calculate_latency_raises(nd.timestamp) THEN "failed"
                          ELSE "quote"
    /\ UNCHANGED <<store, ml_model, scanner, scan_out, main_task, puts>>

\* update_data, lines 96-103
UpdateQuote ==
    /\ Running
    /\ consumer = "quote"
    /\ latest_prices' = SetQuote(latest_prices, normalized_data)
    /\ consumer' = "history"
    /\ UNCHANGED <<queue, price_history, ml_model, normalized_data, scanner, scan_out,
                   main_task, puts, calls>>

\* update_data, lines 105-113, and queue.task_done()
UpdateHistory ==
    /\ Running
    /\ consumer = "history"
    /\ price_history' = AppendPrice(price_history, normalized_data)
    /\ consumer' = "get"
    /\ UNCHANGED <<queue, latest_prices, ml_model, normalized_data, scanner, scan_out,
                   main_task, puts, calls>>

\* the consumer task ended with an exception: gather raises it in main(), and
\* asyncio.run cancels the tasks that are left
MainExit ==
    /\ Running
    /\ ~Blocked
    /\ consumer = "failed"
    /\ main_task' = "exited"
    /\ UNCHANGED <<queue, store, ml_model, consumer, normalized_data, scanner, scan_out,
                   puts, calls>>

(***************************************************************************)
(* Exact arithmetic for the scan.                                          *)
(***************************************************************************)
RECURSIVE SumSeq(_)
SumSeq(xs) == IF xs = <<>> THEN 0 ELSE Head(xs) + SumSeq(Tail(xs))

\* a/b <= c/d for a, c >= 0 and b, d > 0, without forming a*d and c*b
RECURSIVE FracLeq(_, _, _, _)
FracLeq(a, b, c, d) ==
    LET qa == a \div b
        qc == c \div d
        ra == a % b
        rc == c % d
    IN  IF qa # qc THEN qa < qc
        ELSE IF ra = 0 THEN TRUE
        ELSE IF rc = 0 THEN FALSE
        ELSE FracLeq(d, rc, b, ra)

(***************************************************************************)
(* ArbitrageDetector.run_detection: one asset of one cycle.                *)
(***************************************************************************)
\* line 121
valid_data_unfiltered(data_by_exchange) == data_by_exchange
valid_data(data_by_exchange) ==
    SelectSeq(data_by_exchange, LAMBDA kv : kv[2].volume.n >= min_volume)

\* lines 126-127: min() and max() return the first of equal items
lowest_above_zero(prices) ==
    LET above == {i \in 1..Len(prices) : prices[i][2].price.n > 0}
    IN  IF above = {} THEN 1
        ELSE CHOOSE i \in above :
                 /\ \A j \in above : prices[i][2].price.n <= prices[j][2].price.n
                 /\ \A j \in above : j < i => prices[j][2].price.n > prices[i][2].price.n
lowest(prices) ==
    CHOOSE i \in 1..Len(prices) :
        /\ \A j \in 1..Len(prices) : prices[i][2].price.n <= prices[j][2].price.n
        /\ \A j \in 1..(i - 1) : prices[j][2].price.n > prices[i][2].price.n
highest(prices) ==
    CHOOSE i \in 1..Len(prices) :
        /\ \A j \in 1..Len(prices) : prices[i][2].price.n >= prices[j][2].price.n
        /\ \A j \in 1..(i - 1) : prices[j][2].price.n < prices[i][2].price.n

\* line 131, as the fraction num / den
spread_percentage(lowest_price, highest_price) ==
    [num |-> (highest_price - lowest_price) * 100, den |-> lowest_price]

\* round(spread_percentage, 2), in hundredths of a percent
spread_one_decimal(spread) == 10 * RoundHalfEven(spread.num * 10, spread.den)
spread_rounded(spread) == RoundHalfEven(spread.num * 100, spread.den)

\* lines 133-140.  With x the history, n its length, S its sum and
\* D = n * sum(x^2) - S^2: stdev^2 = D / (n (n-1)), mean = S / n, and
\* (volatility / 100)^2 = n D / ((n-1) S^2), kept as sq_num / sq_den since
\* the square root is no rational.  A mean of 0 raises ZeroDivisionError,
\* which the except branch logs, leaving None.
volatility_of_zero_on_error(history) ==
    LET xs == [i \in 1..Len(history) |-> history[i].n]
        n == Len(xs)
        S == SumSeq(xs)
        D == n * SumSeq([i \in 1..n |-> xs[i] * xs[i]]) - S * S
    IN  IF n < 2 THEN [present |-> FALSE, sq_num |-> 0, sq_den |-> 1]
        ELSE IF S = 0 THEN [present |-> TRUE, sq_num |-> 0, sq_den |-> 1]
        ELSE [present |-> TRUE, sq_num |-> n * D, sq_den |-> (n - 1) * S * S]
volatility_of_unbounded_on_error(history) ==
    LET xs == [i \in 1..Len(history) |-> history[i].n]
        n == Len(xs)
        S == SumSeq(xs)
        D == n * SumSeq([i \in 1..n |-> xs[i] * xs[i]]) - S * S
    IN  IF n < 2 THEN [present |-> FALSE, sq_num |-> 0, sq_den |-> 1]
        ELSE IF S = 0 THEN [present |-> TRUE, sq_num |-> 1000000, sq_den |-> 1]
        ELSE [present |-> TRUE, sq_num |-> n * D, sq_den |-> (n - 1) * S * S]
volatility_of(history) ==
    LET xs == [i \in 1..Len(history) |-> history[i].n]
        n == Len(xs)
        S == SumSeq(xs)
        D == n * SumSeq([i \in 1..n |-> xs[i] * xs[i]]) - S * S
    IN  IF n < 2 \/ S = 0 THEN [present |-> FALSE, sq_num |-> 0, sq_den |-> 1]
        ELSE [present |-> TRUE, sq_num |-> n * D, sq_den |-> (n - 1) * S * S]

\* lines 142-144: spread >= volatility_factor * volatility, both sides >= 0,
\* compared as squares
criteria_met_spread_only(spread, volatility) ==
    spread.num >= spread_threshold * spread.den
criteria_met_volatility_only(spread, volatility) ==
    volatility.present =>
        FracLeq(volatility_factor_num * volatility_factor_num * volatility.sq_num,
                volatility_factor_den * volatility_factor_den * volatility.sq_den,
                (spread.num \div 100) * (spread.num \div 100),
                spread.den * spread.den)
criteria_met(spread, volatility) ==
    /\ spread.num >= spread_threshold * spread.den
    /\ volatility.present =>
         FracLeq(volatility_factor_num * volatility_factor_num * volatility.sq_num,
                 volatility_factor_den * volatility_factor_den * volatility.sq_den,
                 (spread.num \div 100) * (spread.num \div 100),
                 spread.den * spread.den)

\* lines 147-148, and round(avg_latency, 3) in milliseconds
avg_latency_ms_fresh_only(valid, now) ==
    LET fresh == SelectSeq(valid, LAMBDA kv :
                     calculate_latency(kv[2].timestamp, now) <= latency_threshold)
    IN  IF fresh = <<>> THEN 0
        ELSE RoundHalfEven(
                 1000 * SumSeq([i \in 1..Len(fresh) |->
                                   calculate_latency(fresh[i][2].timestamp, now)]),
                 Len(fresh))
avg_latency_ms(valid, now) ==
    RoundHalfEven(
        1000 * SumSeq([i \in 1..Len(valid) |-> calculate_latency(valid[i][2].timestamp, now)]),
        Len(valid))

\* predict_signal: no model confirms; a model confirms above 0.7; an
\* exception of the model is logged and refuses
predict_signal_confirming_on_error(model, result) ==
    IF IsNone(model) THEN TRUE
    ELSE IF result.raises THEN TRUE
    ELSE result.probability > ml_confirm_pct
predict_signal(model, result) ==
    IF IsNone(model) THEN TRUE
    ELSE IF result.raises THEN FALSE
    ELSE result.probability > ml_confirm_pct

\* What the evaluation of one asset comes to: whether it got as far as
\* predict_signal, and the signal when there is one.  The signal carries
\* spread_percentage in hundredths of a percent and latency in milliseconds,
\* as rounded; its volatility is the exact value, whose rounding to two
\* decimals needs the square root.
NoSignal(called) == [predict_called |-> called, emitted |-> FALSE, signal |-> None]

evaluate(asset, data_by_exchange, history, model, now, ml_result) ==
    IF Len(data_by_exchange) < 2 THEN NoSignal(FALSE)
    ELSE LET valid == valid_data(data_by_exchange) IN
    IF Len(valid) < 2 THEN NoSignal(FALSE)
    ELSE LET lo == lowest(valid)
             hi == highest(valid)
             lowest_price == valid[lo][2].price.n
             highest_price == valid[hi][2].price.n
         IN
    IF lowest_price = 0 THEN NoSignal(FALSE)
    ELSE LET spread == spread_percentage(lowest_price, highest_price)
             volatility == volatility_of(history)
             ml_confirm == predict_signal(model, ml_result)
         IN
    IF ~(criteria_met(spread, volatility) /\ ml_confirm) THEN NoSignal(TRUE)
    ELSE [predict_called |-> TRUE,
          emitted |-> TRUE,
          signal |-> [asset |-> asset,
                      buy_exchange |-> valid[lo][1],
                      sell_exchange |-> valid[hi][1],
                      buy_price |-> lowest_price,
                      sell_price |-> highest_price,
                      spread_percentage |-> spread_rounded(spread),
                      volatility |-> volatility,
                      latency |-> avg_latency_ms(valid, now),
                      timestamp |-> now]]

(***************************************************************************)
(* run_detection: one cycle over latest_prices.items(), then the sleep.    *)
(* The cycle holds no await: it runs from the first asset to the last      *)
(* without another task in between.  now is time.time() / datetime.now()   *)
(* of the cycle; ml[i], email[i] and slack[i] are what the classifier and  *)
(* the two sinks answer for the i-th asset.  The step run_detection takes  *)
(* the cycle to where its outcome is fixed; a cycle that called the        *)
(* classifier or the sinks is then inside those calls until CallsReturn.   *)
(***************************************************************************)
history_for(asset) ==
    IF DictHas(price_history, asset) THEN DictGet(price_history, asset) ELSE <<>>

evaluations_once_per_asset(now, ml) ==
    [i \in 1..Len(latest_prices) |->
        IF \E k \in 1..Len(signals) : signals[k].asset = latest_prices[i][1]
        THEN NoSignal(TRUE)
        ELSE evaluate(latest_prices[i][1], latest_prices[i][2],
                      history_for(latest_prices[i][1]), ml_model, now, ml[i])]
evaluations(now, ml) ==
    [i \in 1..Len(latest_prices) |->
        evaluate(latest_prices[i][1], latest_prices[i][2],
                 history_for(latest_prices[i][1]), ml_model, now, ml[i])]

\* the indices at which flags holds TRUE, in order
RECURSIVE PickedFirst(_)
PickedFirst(flags) ==
    IF flags = <<>> THEN <<>>
    ELSE LET n == Len(flags)
             before == PickedFirst(SubSeq(flags, 1, n - 1))
         IN  IF flags[n] /\ before = <<>> THEN <<n>> ELSE before
RECURSIVE Picked(_)
Picked(flags) ==
    IF flags = <<>> THEN <<>>
    ELSE LET n == Len(flags)
             before == Picked(SubSeq(flags, 1, n - 1))
         IN  IF flags[n] THEN Append(before, n) ELSE before

\* lines 175-178: the e-mail, then the Slack message; each logs its failure
\* and returns
send_alerts_until_failure(asset, email_outcome, slack_outcome) ==
    [asset |-> asset, email |-> email_outcome,
     slack |-> IF email_outcome = "failed" THEN "not called" ELSE slack_outcome]
send_alerts(asset, email_outcome, slack_outcome) ==
    [asset |-> asset, email |-> email_outcome, slack |-> slack_outcome]

run_detection_filtering_in_place(now, ml, email, slack) ==
    /\ Running
    /\ Yields(consumer)
    /\ scanner = "scan"
    /\ LET evals == evaluations(now, ml)
           emitted == Picked([i \in 1..Len(evals) |-> evals[i].emitted])
           called == Picked([i \in 1..Len(evals) |-> evals[i].predict_called])
           scored == Picked([i \in 1..Len(evals) |->
                               evals[i].predict_called /\ ~IsNone(ml_model)])
       IN  /\ signals' = [k \in 1..Len(emitted) |-> evals[emitted[k]].signal]
           /\ predict_calls' = [k \in 1..Len(called) |-> latest_prices[called[k]][1]]
           /\ ml_log' = [k \in 1..Len(scored) |->
                           [asset |-> latest_prices[scored[k]][1], result |-> ml[scored[k]]]]
           /\ deliveries' = [k \in 1..Len(emitted) |->
                               send_alerts(latest_prices[emitted[k]][1],
                                           email[emitted[k]], slack[emitted[k]])]
           /\ scanner' = IF emitted # <<>> \/ scored # <<>> THEN "calls" ELSE "sleep"
    /\ latest_prices' = [i \in 1..Len(latest_prices) |->
                            <<latest_prices[i][1], valid_data(latest_prices[i][2])>>]
    /\ UNCHANGED <<queue, price_history, ml_model, consumer, normalized_data, main_task,
                   puts, calls>>

run_detection(now, ml, email, slack) ==
    /\ Running
    /\ Yields(consumer)
    /\ scanner = "scan"
    /\ LET evals == evaluations(now, ml)
           emitted == Picked([i \in 1..Len(evals) |-> evals[i].emitted])
           called == Picked([i \in 1..Len(evals) |-> evals[i].predict_called])
           scored == Picked([i \in 1..Len(evals) |->
                               evals[i].predict_called /\ ~IsNone(ml_model)])
       IN  /\ signals' = [k \in 1..Len(emitted) |-> evals[emitted[k]].signal]
           /\ predict_calls' = [k \in 1..Len(called) |-> latest_prices[called[k]][1]]
           /\ ml_log' = [k \in 1..Len(scored) |->
                           [asset |-> latest_prices[scored[k]][1], result |-> ml[scored[k]]]]
           /\ deliveries' = [k \in 1..Len(emitted) |->
                               send_alerts(latest_prices[emitted[k]][1],
                                           email[emitted[k]], slack[emitted[k]])]
           /\ scanner' = IF emitted # <<>> \/ scored # <<>> THEN "calls" ELSE "sleep"
    /\ UNCHANGED <<queue, store, ml_model, consumer, normalized_data, main_task,
                   puts, calls>>

\* predict_proba, sendmail and requests.post have returned, or raised into
\* the except branches that log; the cycle goes on to its sleep
CallsReturn ==
    /\ Running
    /\ scanner = "calls"
    /\ scanner' = "sleep"
    /\ UNCHANGED <<queue, store, ml_model, consumer, normalized_data, scan_out,
                   main_task, puts, calls>>

\* await asyncio.sleep(self.update_interval) is over
Wake ==
    /\ Running
    /\ Yields(consumer)
    /\ scanner = "sleep"
    /\ scanner' = "scan"
    /\ UNCHANGED <<queue, store, ml_model, consumer, normalized_data, scan_out,
                   main_task, puts, calls>>

(***************************************************************************)
(* The pipeline of integration.py and arbitrage_detection/main.py: the     *)
(* four connectors and the simulated producer put records, data_consumer   *)
(* applies them, run_detection scans.  The inputs are drawn from the sets  *)
(* below.                                                                  *)
(***************************************************************************)
Message(sym, px, vol, time) == [sym |-> sym, px |-> px, vol |-> vol, time |-> time]

BinanceMessages ==
    {Message(Str("ETH-USD"), Num(100), Num(60), Num(10000)),
     Message(Str("ETH-USD"), Num(105), Num(60), Num(10000)),
     Message(Str("BTC-USD"), Num(100), Num(60), Num(10000)),
     \* a ticker without "c": float(ticker.get("c", 0))
     Message(Str("BTC-USD"), None, Num(60), Num(10000))}
CoinbaseMessages == {Message(Str("BTC-USD"), Num(105), Num(60), Str("2024-01-01T00:00:00Z"))}
KrakenMessages == {Message(Str("BTC-USD"), Num(100), Num(60), None)}
ChainlinkAnswers == {110}
FakePrices == {105, 115}
Clock == {12}
MlResults == {[raises |-> FALSE, probability |-> 90]}
SinkOutcomes == {"failed"}

\* each connector task lives while main() awaits gather
BinanceMessage ==
    /\ Running
    /\ \E data \in BinanceMessages : put(normalize_data("binance", data))
CoinbaseMessage ==
    /\ Running
    /\ \E data \in CoinbaseMessages : put(normalize_data("coinbase", data))
KrakenMessage ==
    /\ Running
    /\ \E data \in KrakenMessages : put(normalize_data("kraken", data))
ChainlinkPoll ==
    /\ Running
    /\ \E answer \in ChainlinkAnswers : put(get_chainlink_price(answer, 10))
FakeProducer ==
    /\ Running
    /\ \E price \in FakePrices : put(fake_data("kraken", "ETH-USD", price, 100, 10))

Scan ==
    \E now \in Clock :
    \E ml \in [1..Len(latest_prices) -> MlResults] :
    \E email \in [1..Len(latest_prices) -> SinkOutcomes] :
    \E slack \in [1..Len(latest_prices) -> SinkOutcomes] :
        run_detection(now, ml, email, slack)

\* asyncio.run(main()) takes SIGINT (Ctrl-C), the one way to ask the program
\* to stop: it cancels main() and every task, whatever the queue still holds
Interrupt ==
    /\ Running
    /\ main_task' = "interrupted"
    /\ UNCHANGED <<queue, store, ml_model, consumer, normalized_data, scanner, scan_out,
                   puts, calls>>

Init ==
    /\ queue = <<>>
    /\ latest_prices = <<>>
    /\ price_history = <<>>
    /\ ml_model = None
    /\ consumer = "get"
    /\ normalized_data = None
    /\ scanner = "scan"
    /\ signals = <<>>
    /\ predict_calls = <<>>
    /\ ml_log = <<>>
    /\ deliveries = <<>>
    /\ main_task = "gather"
    /\ puts = <<>>
    /\ calls = <<>>

Next ==
    \/ BinanceMessage
    \/ CoinbaseMessage
    \/ KrakenMessage
    \/ ChainlinkPoll
    \/ FakeProducer
    \/ ConsumerGet
    \/ UpdateQuote
    \/ UpdateHistory
    \/ MainExit
    \/ Scan
    \/ CallsReturn
    \/ Wake
    \/ Interrupt

Spec == Init /\ [][Next]_vars

(***************************************************************************)
(* What the histories puts and calls say the store must hold.              *)
(***************************************************************************)
\* update_data goes on to its writes with this record
Accepted(nd) == ~Incomplete(nd) /\ ~calculate_latency_raises(nd.timestamp)

AllButLast(xs) == SubSeq(xs, 1, Len(xs) - 1)
\* the accepted records whose quote is written, and those whose price is appended
QuoteWritten == SelectSeq(IF consumer = "quote" THEN AllButLast(calls) ELSE calls, Accepted)
PriceAppended ==
    SelectSeq(IF consumer \in {"quote", "history"} THEN AllButLast(calls) ELSE calls, Accepted)

OfAsset(nds, asset) == SelectSeq(nds, LAMBDA nd : nd.asset = asset)
OfPair(nds, asset, exchange) ==
    SelectSeq(nds, LAMBDA nd : nd.asset = asset /\ nd.exchange = exchange)
PricesOf(nds) == [i \in 1..Len(nds) |-> nds[i].price]
Range(xs) == {xs[i] : i \in 1..Len(xs)}
LastOf(xs) == xs[Len(xs)]
LastN(xs, n) == SubSeq(xs, Len(xs) - n + 1, Len(xs))

(***************************************************************************)
(* The detector under every answer of its collaborators.  The store holds  *)
(* what update_data made of a run of records (puts and calls say which),   *)
(* the queue is empty, a classifier is loaded or not, and run_detection    *)
(* goes through its cycles while the classifier raises, refuses or         *)
(* confirms and each sink delivers or fails.  The records are those of     *)
(* fake_data_producer, of the Binance normaliser for a ticker without "c"  *)
(* and "v", and of the Chainlink poll.                                     *)
(***************************************************************************)
RECURSIVE update_all(_, _)
update_all(st, nds) ==
    IF nds = <<>> THEN st
    ELSE LET nd == Head(nds)
         IN  update_all(IF Accepted(nd)
                        THEN [latest_prices |-> SetQuote(st.latest_prices, nd),
                              price_history |-> AppendPrice(st.price_history, nd)]
                        ELSE st,
                        Tail(nds))

EmptyTicker(sym) == normalize_data("binance", Message(Str(sym), None, None, Num(10000)))

\* a Binance ticker without "c": float(ticker.get("c", 0)) is 0.0
ZeroPriceTicker(sym) == normalize_data("binance", Message(Str(sym), None, Num(60), Num(10000)))

EthRuns ==
    {<<>>,
     <<fake_data("binance", "ETH-USD", 100, 100, 10), fake_data("kraken", "ETH-USD", 105, 100, 10)>>,
     <<fake_data("binance", "ETH-USD", 100, 100, 10), fake_data("coinbase", "ETH-USD", 105, 100, 10),
       fake_data("kraken", "ETH-USD", 115, 100, 10)>>,
     \* a quote observed at the time of the scan, one observed 11 s before,
     \* and the Chainlink answer (volume 0) updated 8 s before
     <<fake_data("binance", "ETH-USD", 100, 100, 12), fake_data("kraken", "ETH-USD", 115, 100, 1),
       get_chainlink_price(110, 4)>>,
     \* a quote of price 0 and a volume that counts
     <<fake_data("coinbase", "ETH-USD", 100, 100, 10), fake_data("kraken", "ETH-USD", 115, 100, 10),
       ZeroPriceTicker("ETH-USD"), ZeroPriceTicker("ETH-USD"), ZeroPriceTicker("ETH-USD")>>}
BtcRuns ==
    {<<>>,
     <<fake_data("coinbase", "BTC-USD", 100, 100, 10), fake_data("kraken", "BTC-USD", 115, 100, 10)>>,
     <<fake_data("coinbase", "BTC-USD", 100, 100, 10), fake_data("kraken", "BTC-USD", 100, 100, 10)>>,
     <<fake_data("coinbase", "BTC-USD", 100, 100, 10), fake_data("kraken", "BTC-USD", 105, 40, 10)>>,
     \* the history ends with prices of mean 0: stdev / mean raises
     <<fake_data("coinbase", "BTC-USD", 100, 100, 10), fake_data("kraken", "BTC-USD", 105, 100, 10),
       EmptyTicker("BTC-USD"), EmptyTicker("BTC-USD"), EmptyTicker("BTC-USD")>>}
Runs == {eth \o btc : eth \in EthRuns, btc \in BtcRuns}

Models == {None, Str("ml_model.pkl")}
ModelAnswers ==
    {[raises |-> TRUE, probability |-> 0],
     [raises |-> FALSE, probability |-> 70],
     [raises |-> FALSE, probability |-> 90]}
SinkAnswers == {"sent", "failed"}

DetectorInit ==
    /\ \E run \in Runs :
          /\ latest_prices = update_all([latest_prices |-> <<>>, price_history |-> <<>>], run).latest_prices
          /\ price_history = update_all([latest_prices |-> <<>>, price_history |-> <<>>], run).price_history
          /\ puts = run
          /\ calls = run
    /\ queue = <<>>
    /\ ml_model \in Models
    /\ consumer = "get"
    /\ normalized_data = None
    /\ scanner = "scan"
    /\ signals = <<>>
    /\ predict_calls = <<>>
    /\ ml_log = <<>>
    /\ deliveries = <<>>
    /\ main_task = "gather"

\* the classifier answers asset by asset; each sink is up or down for a cycle
DetectorScan ==
    \E now \in Clock :
    \E ml \in [1..Len(latest_prices) -> ModelAnswers] :
    \E email \in SinkAnswers :
    \E slack \in SinkAnswers :
        run_detection(now, ml, [i \in 1..Len(latest_prices) |-> email],
                      [i \in 1..Len(latest_prices) |-> slack])

DetectorNext ==
    \/ DetectorScan
    \/ CallsReturn
    \/ Wake

DetectorSpec == DetectorInit /\ [][DetectorNext]_vars

(***************************************************************************)
(* C1.  Every price history holds at most history_window prices.  The     *)
(* second half of update_data appends the record's price to its asset's    *)
(* history, drops the first price when the history was full, and leaves    *)
(* every other asset's history as it was; no other step changes a history. *)
(***************************************************************************)
HistoryBounded == \A i \in 1..Len(price_history) : Len(price_history[i][2]) <= history_window

FifoStep ==
    LET asset == normalized_data.asset
        old == history_for(asset)
        kept == IF Len(old) >= history_window THEN Tail(old) ELSE old
    IN  /\ DictHas(price_history', asset)
        /\ DictGet(price_history', asset) = Append(kept, normalized_data.price)
        /\ \A i \in 1..Len(price_history) :
              price_history[i][1] # asset => price_history'[i] = price_history[i]

C1_HistoryBoundedFifo ==
    /\ []HistoryBounded
    /\ [][IF consumer = "history" /\ consumer' = "get" THEN FifoStep
          ELSE price_history' = price_history]_vars

\* a full history has taken one more price
C1_Witness ==
    \E i \in 1..Len(price_history) :
        /\ Len(price_history[i][2]) = history_window
        /\ Len(OfAsset(PriceAppended, price_history[i][1])) > history_window

(***************************************************************************)
(* C2.  Once history_window or more records of an asset have been applied, *)
(* from whichever exchanges, the asset's history is the prices of the last *)
(* history_window of them, in the order they were applied.                 *)
(***************************************************************************)
C2_HistoryIsLastWindow ==
    \A nd \in Range(PriceAppended) :
        LET prices == PricesOf(OfAsset(PriceAppended, nd.asset))
        IN  Len(prices) >= history_window =>
                history_for(nd.asset) = LastN(prices, history_window)

\* more records than the window holds, from two exchanges
C2_Witness ==
    \E nd \in Range(PriceAppended) :
        LET applied == OfAsset(PriceAppended, nd.asset)
        IN  /\ Len(applied) > history_window
            /\ \E other \in Range(applied) : other.exchange # nd.exchange
            /\ consumer = "get"

(***************************************************************************)
(* C3.  The quote stored for an (asset, exchange) is the price, volume and *)
(* timestamp of the last record applied for that pair, whatever came       *)
(* before it; a pair no record was applied for has no quote.               *)
(***************************************************************************)
StoredPairs ==
    UNION {{<<latest_prices[i][1], exchange>> : exchange \in DictKeys(latest_prices[i][2])} :
              i \in 1..Len(latest_prices)}
QuoteAt(asset, exchange) == DictGet(DictGet(latest_prices, asset), exchange)

C3_LastWriteWins ==
    /\ \A pair \in StoredPairs : OfPair(QuoteWritten, pair[1], pair[2]) # <<>>
    /\ \A nd \in Range(QuoteWritten) :
          LET T2 == LastOf(OfPair(QuoteWritten, nd.asset, nd.exchange))
          IN  /\ <<nd.asset, nd.exchange>> \in StoredPairs
              /\ QuoteAt(nd.asset, nd.exchange).price = T2.price
              /\ QuoteAt(nd.asset, nd.exchange).volume = T2.volume
              /\ QuoteAt(nd.asset, nd.exchange).timestamp = T2.timestamp

\* a pair has taken a second record with another price, beside another pair
C3_Witness ==
    /\ Cardinality(StoredPairs) >= 2
    /\ \E nd \in Range(QuoteWritten) :
          LET of_pair == OfPair(QuoteWritten, nd.asset, nd.exchange)
          IN  /\ Len(of_pair) >= 2
              /\ of_pair[1].price # of_pair[2].price
              /\ QuoteAt(nd.asset, nd.exchange).price = of_pair[2].price

(***************************************************************************)
(* C4.  Whenever run_detection runs a cycle, the store it reads holds      *)
(* every record update_data has gone on to apply as a whole: the quote of  *)
(* each pair is the last such record of the pair in all three fields, and  *)
(* the history of each asset ends with the price of the last such record   *)
(* of the asset.  No cycle reads a quote written without its price.        *)
(***************************************************************************)
ScanStep == scanner = "scan" /\ scanner' # "scan"
Handed == SelectSeq(calls, Accepted)

StoreWhole ==
    \A nd \in Range(Handed) :
        LET T == LastOf(OfPair(Handed, nd.asset, nd.exchange))
            last == LastOf(OfAsset(Handed, nd.asset))
        IN  /\ <<nd.asset, nd.exchange>> \in StoredPairs
            /\ QuoteAt(nd.asset, nd.exchange).price = T.price
            /\ QuoteAt(nd.asset, nd.exchange).volume = T.volume
            /\ QuoteAt(nd.asset, nd.exchange).timestamp = T.timestamp
            /\ DictHas(price_history, nd.asset)
            /\ LastOf(history_for(nd.asset)) = last.price

C4_ScanSeesWholeTicks == [][ScanStep => StoreWhole]_vars

\* a cycle has evaluated an asset of the store while records wait in the queue
C4_Witness ==
    /\ scanner = "sleep"
    /\ predict_calls # <<>>
    /\ queue # <<>>
    /\ Handed # <<>>

(***************************************************************************)
(* C5.  Every record update_data goes on to store, and so every stored     *)
(* quote, has a price above 0 and a volume of 0 or more.                   *)
(***************************************************************************)
C5_StoredQuotesValid ==
    /\ \A nd \in Range(QuoteWritten) : nd.price.n > 0 /\ nd.volume.n >= 0
    /\ \A pair \in StoredPairs :
          /\ QuoteAt(pair[1], pair[2]).price.n > 0
          /\ QuoteAt(pair[1], pair[2]).volume.n >= 0

(***************************************************************************)
(* C6.  Whatever record the consumer gets, update_data returns without     *)
(* raising: the consumer task never ends with an exception and main()      *)
(* never ends on one (it keeps the tasks running until interrupted).       *)
(***************************************************************************)
C6_MalformedNeverFatal == consumer # "failed" /\ main_task # "exited"

(***************************************************************************)
(* C7.  The queue has a capacity that the number of queued records never   *)
(* exceeds (a capacity below MaxTicks, since the producers of a run put    *)
(* MaxTicks records at most).                                              *)
(***************************************************************************)
C7_BoundedChannel == \E capacity \in 1..(MaxTicks - 1) : Len(queue) <= capacity

(***************************************************************************)
(* C8.  The records put on the queue are, in put order, those handed to    *)
(* update_data followed by those still queued, and while a record is       *)
(* queued the consumer has not failed nor main() ended on an exception.    *)
(***************************************************************************)
C8_QueuedTicksGetApplied ==
    /\ puts = calls \o queue
    /\ queue # <<>> => (main_task # "exited" /\ consumer # "failed")

(***************************************************************************)
(* C9.  In every cycle, the buy and the sell exchange of a signal hold a   *)
(* quote of volume min_volume or more, and an asset with fewer than two    *)
(* such quotes gets no signal.                                             *)
(***************************************************************************)
ValidExchanges(asset) ==
    {exchange \in DictKeys(DictGet(latest_prices, asset)) :
        QuoteAt(asset, exchange).volume.n >= min_volume}

C9_VolumeFilter ==
    [][ScanStep =>
        /\ \A k \in 1..Len(signals') :
              /\ signals'[k].buy_exchange \in ValidExchanges(signals'[k].asset)
              /\ signals'[k].sell_exchange \in ValidExchanges(signals'[k].asset)
        /\ \A i \in 1..Len(latest_prices) :
              Cardinality(ValidExchanges(latest_prices[i][1])) < 2 =>
                  \A k \in 1..Len(signals') : signals'[k].asset # latest_prices[i][1]]_vars

\* a signal for an asset whose highest quote is below min_volume and left out
C9_Witness ==
    /\ scanner = "sleep"
    /\ \E k \in 1..Len(signals) :
          LET asset == signals[k].asset
          IN  /\ DictHas(latest_prices, asset)
              /\ signals[k].sell_exchange \in ValidExchanges(asset)
              /\ \E exchange \in DictKeys(DictGet(latest_prices, asset)) \ ValidExchanges(asset) :
                    QuoteAt(asset, exchange).price.n > signals[k].sell_price

(***************************************************************************)
(* C10.  In every cycle, a signal's buy price is the lowest and its sell   *)
(* price the highest price among the asset's quotes of volume min_volume   *)
(* or more, its buy and sell exchanges quote these prices, and its         *)
(* spread_percentage is (sell - buy) / buy * 100: exactly that in          *)
(* C10_SpreadExact, that rounded to two decimals in C10_SpreadRounded      *)
(* (spread_percentage counts hundredths of a percent).                     *)
(***************************************************************************)
MinMaxOfValid(sg) ==
    LET valid == ValidExchanges(sg.asset)
    IN  /\ sg.buy_exchange \in valid
        /\ sg.sell_exchange \in valid
        /\ QuoteAt(sg.asset, sg.buy_exchange).price.n = sg.buy_price
        /\ QuoteAt(sg.asset, sg.sell_exchange).price.n = sg.sell_price
        /\ \A exchange \in valid :
              /\ sg.buy_price <= QuoteAt(sg.asset, exchange).price.n
              /\ QuoteAt(sg.asset, exchange).price.n <= sg.sell_price

\* spread_percentage / 100 - (sell - buy) / buy * 100, times 100 * buy
SpreadError(sg) == sg.spread_percentage * sg.buy_price - (sg.sell_price - sg.buy_price) * 10000
Abs(x) == IF x < 0 THEN -x ELSE x

C10_SpreadExact ==
    [][ScanStep =>
        \A k \in 1..Len(signals') :
            MinMaxOfValid(signals'[k]) /\ SpreadError(signals'[k]) = 0]_vars

C10_SpreadRounded ==
    [][ScanStep =>
        \A k \in 1..Len(signals') :
            LET sg == signals'[k]
            IN  /\ MinMaxOfValid(sg)
                /\ sg.buy_price > 0
                /\ 2 * Abs(SpreadError(sg)) <= sg.buy_price
                /\ 2 * Abs(SpreadError(sg)) = sg.buy_price => sg.spread_percentage % 2 = 0
                /\ (sg.buy_price = 100 /\ sg.sell_price = 105) => sg.spread_percentage = 500]_vars

\* a signal whose spread has more than two decimals: 105 to 115, 9.5238...
C10_Witness ==
    /\ scanner = "sleep"
    /\ \E k \in 1..Len(signals) :
          /\ SpreadError(signals[k]) # 0
          /\ signals[k].buy_exchange # signals[k].sell_exchange

(***************************************************************************)
(* C11.  In every cycle, a signal is emitted for an asset only if its      *)
(* spread, (sell - buy) / buy * 100, is spread_threshold or more and, when *)
(* the asset's history gives a volatility (two prices or more, of a mean   *)
(* that is not 0), also volatility_factor times that volatility or more.   *)
(* With the factor 1.5 and a volatility of 4.0 (the history 96, 100, 104)  *)
(* a spread of 5.0 does not pass and a spread of 7.0 does.                 *)
(***************************************************************************)
SumOfSquares(h) == SumSeq([i \in 1..Len(h) |-> h[i].n * h[i].n])
Sum(h) == SumSeq([i \in 1..Len(h) |-> h[i].n])
HasVolatility(h) == Len(h) >= 2 /\ Sum(h) # 0

\* (volatility_factor * stdev / mean)^2 <= ((sell - buy) / buy)^2
SpreadCoversVolatility(sg, h) ==
    LET n == Len(h)
    IN  FracLeq(volatility_factor_num * volatility_factor_num
                    * n * (n * SumOfSquares(h) - Sum(h) * Sum(h)),
                volatility_factor_den * volatility_factor_den * (n - 1) * Sum(h) * Sum(h),
                (sg.sell_price - sg.buy_price) * (sg.sell_price - sg.buy_price),
                sg.buy_price * sg.buy_price)

GateHolds(sg, h) ==
    /\ sg.buy_price > 0
    /\ (sg.sell_price - sg.buy_price) * 100 >= spread_threshold * sg.buy_price
    /\ HasVolatility(h) => SpreadCoversVolatility(sg, h)

VolatilityOfFour == volatility_of(<<Num(96), Num(100), Num(104)>>)

GateSoundInCycles ==
    [][ScanStep =>
        \A k \in 1..Len(signals') :
            GateHolds(signals'[k], history_for(signals'[k].asset))]_vars

C11_GateSound ==
    /\ GateSoundInCycles
    /\ ~criteria_met(spread_percentage(100, 105), VolatilityOfFour)
    /\ criteria_met(spread_percentage(100, 107), VolatilityOfFour)

\* a signal whose asset has a volatility above 0, which its spread covers
C11_Witness ==
    /\ scanner \in {"calls", "sleep"}
    /\ \E k \in 1..Len(signals) :
          LET h == history_for(signals[k].asset)
          IN  /\ HasVolatility(h)
              /\ Len(h) * SumOfSquares(h) > Sum(h) * Sum(h)
              /\ signals[k].volatility.present

(***************************************************************************)
(* C12.  In every cycle, each asset with two or more quotes of volume      *)
(* min_volume or more, a lowest such price that is not 0, a spread that    *)
(* passes the gate and a classifier that confirms (or none loaded) gets a  *)
(* signal in that cycle, which is handed to the sinks in that cycle and    *)
(* names an exchange of the lowest price as buy_exchange and one of the    *)
(* highest price as sell_exchange.                                         *)
(***************************************************************************)
ValidPrices(asset) == {QuoteAt(asset, exchange).price.n : exchange \in ValidExchanges(asset)}
MinPrice(asset) == CHOOSE p \in ValidPrices(asset) : \A q \in ValidPrices(asset) : p <= q
MaxPrice(asset) == CHOOSE p \in ValidPrices(asset) : \A q \in ValidPrices(asset) : p >= q

PassesGate(asset) ==
    /\ Cardinality(ValidExchanges(asset)) >= 2
    /\ MinPrice(asset) # 0
    /\ GateHolds([buy_price |-> MinPrice(asset), sell_price |-> MaxPrice(asset)],
                 history_for(asset))

\* no classifier, or the log of the cycle holds its confirming answer for the asset
Confirmed(asset, log) ==
    \/ IsNone(ml_model)
    \/ \E k \in 1..Len(log) :
          /\ log[k].asset = asset
          /\ ~log[k].result.raises
          /\ log[k].result.probability > ml_confirm_pct

SignalFor(asset, sgs) == {k \in 1..Len(sgs) : sgs[k].asset = asset}

C12_Complete ==
    [][ScanStep =>
        \A i \in 1..Len(latest_prices) :
            LET asset == latest_prices[i][1]
            IN  (PassesGate(asset) /\ Confirmed(asset, ml_log')) =>
                    \E k \in SignalFor(asset, signals') :
                        /\ signals'[k].buy_exchange \in ValidExchanges(asset)
                        /\ signals'[k].sell_exchange \in ValidExchanges(asset)
                        /\ QuoteAt(asset, signals'[k].buy_exchange).price.n = MinPrice(asset)
                        /\ QuoteAt(asset, signals'[k].sell_exchange).price.n = MaxPrice(asset)
                        /\ signals'[k].buy_price = MinPrice(asset)
                        /\ signals'[k].sell_price = MaxPrice(asset)
                        /\ k <= Len(deliveries')
                        /\ deliveries'[k].asset = asset
                        /\ deliveries'[k].email \in {"sent", "failed"}]_vars

\* a cycle with a classifier that confirmed two assets, one of them quoted by
\* three exchanges, and a signal handed over for each
C12_Witness ==
    /\ scanner = "calls"
    /\ ~IsNone(ml_model)
    /\ Len(signals) = 2
    /\ Len(deliveries) = 2
    /\ \A k \in 1..2 : Confirmed(signals[k].asset, ml_log)
    /\ \E k \in 1..2 : Cardinality(ValidExchanges(signals[k].asset)) = 3

(***************************************************************************)
(* C13.  In every cycle: with no classifier loaded, each asset that passes *)
(* the gate gets a signal; an asset for which the classifier raised gets   *)
(* none, while each other asset that passes the gate and is confirmed      *)
(* still gets its signal, and run_detection goes on to its sleep and the   *)
(* next cycle.                                                             *)
(***************************************************************************)
Raised(log) == {log[k].asset : k \in {j \in 1..Len(log) : log[j].result.raises}}

C13_FailOpenFailClosed ==
    [][ScanStep =>
        /\ IsNone(ml_model) =>
              \A i \in 1..Len(latest_prices) :
                  PassesGate(latest_prices[i][1]) =>
                      SignalFor(latest_prices[i][1], signals') # {}
        /\ \A asset \in Raised(ml_log') : SignalFor(asset, signals') = {}
        /\ \A i \in 1..Len(latest_prices) :
              LET asset == latest_prices[i][1]
              IN  (Raised(ml_log') # {} /\ PassesGate(asset) /\ Confirmed(asset, ml_log')) =>
                      SignalFor(asset, signals') # {}
        /\ scanner' \in {"calls", "sleep"}
        /\ main_task' = "gather"]_vars

\* a cycle in which the classifier raised for an asset that passes the gate
\* and confirmed the other asset, which alone got its signal
C13_Witness ==
    /\ scanner = "calls"
    /\ \E asset \in Raised(ml_log) : PassesGate(asset)
    /\ \E k \in 1..Len(signals) :
          /\ signals[k].asset \notin Raised(ml_log)
          /\ Confirmed(signals[k].asset, ml_log)
    /\ Len(signals) = 1
    /\ Len(latest_prices) = 2

(***************************************************************************)
(* C14.  The volatility computation of an asset raises when its history    *)
(* holds two prices or more of mean 0 (stdev / mean).  C14_ErrorSkipsAsset:*)
(* in every cycle such an asset gets no signal, and every other asset that *)
(* passes the gate and is confirmed gets its signal.                       *)
(* C14_ErrorLeavesVolatilityAbsent: in every cycle such an asset is        *)
(* evaluated with no volatility, so it gets a signal exactly when it has   *)
(* two quotes of volume min_volume or more, a lowest price that is not 0,  *)
(* a spread of spread_threshold or more and the confirmation, and that     *)
(* signal carries no volatility; every other asset that passes the gate    *)
(* and is confirmed gets its signal.                                       *)
(***************************************************************************)
VolatilityRaises(asset) == Len(history_for(asset)) >= 2 /\ Sum(history_for(asset)) = 0
Assets == DictKeys(latest_prices)

OthersGetTheirSignal(asset, sgs, log) ==
    \A other \in Assets \ {asset} :
        (PassesGate(other) /\ Confirmed(other, log)) => SignalFor(other, sgs) # {}

SpreadAlone(asset) ==
    /\ Cardinality(ValidExchanges(asset)) >= 2
    /\ MinPrice(asset) # 0
    /\ (MaxPrice(asset) - MinPrice(asset)) * 100 >= spread_threshold * MinPrice(asset)

C15_OneSignalPerAsset ==
    [][ScanStep =>
        /\ \A k, m \in 1..Len(signals') :
              signals'[k].asset = signals'[m].asset => k = m
        /\ Len(deliveries') = Len(signals')
        /\ \A k \in 1..Len(signals') : deliveries'[k].asset = signals'[k].asset]_vars

\* a cycle with two signals, one of them for an asset three exchanges quote
C15_Witness ==
    /\ scanner = "calls"
    /\ Len(signals) = 2
    /\ \E k \in 1..2 : Len(DictGet(latest_prices, signals[k].asset)) = 3
    /\ IsNone(ml_model)

(***************************************************************************)
(* C16.  In every cycle, each signal is handed to both sinks, whatever     *)
(* came of the other one: the e-mail is sent or its failure logged, and    *)
(* the Slack message is sent or its failure logged.  No failure reaches    *)
(* run_detection: after a cycle with a failed delivery the scanner is in   *)
(* its calls, asleep or at its next cycle, and main() keeps its tasks.     *)
(***************************************************************************)
SomeDeliveryFailed ==
    \E k \in 1..Len(deliveries) : "failed" \in {deliveries[k].email, deliveries[k].slack}

C16_SinksIndependent ==
    /\ [][ScanStep =>
            /\ Len(deliveries') = Len(signals')
            /\ \A k \in 1..Len(deliveries') :
                  /\ deliveries'[k].email \in {"sent", "failed"}
                  /\ deliveries'[k].slack \in {"sent", "failed"}
            /\ main_task' = "gather"]_vars
    /\ [](SomeDeliveryFailed => (main_task = "gather" /\ scanner \in {"calls", "sleep", "scan"}))

\* the e-mail failed, the Slack message was sent, and the next cycle is due
C16_Witness ==
    /\ scanner = "scan"
    /\ main_task = "gather"
    /\ \E k \in 1..Len(deliveries) :
          deliveries[k].email = "failed" /\ deliveries[k].slack = "sent"

(***************************************************************************)
(* C17.  Once the program is interrupted, no record is put and no signal   *)
(* emitted any more, and the consumer has applied what was queued: the     *)
(* queue is empty and every record put was handed to update_data.          *)
(***************************************************************************)
C17_CooperativeShutdown ==
    /\ [][main_task = "interrupted" => (puts' = puts /\ signals' = signals)]_vars
    /\ [](main_task = "interrupted" => (queue = <<>> /\ calls = puts))

(***************************************************************************)
(* C18.  Unless the program is interrupted, run_detection is never taken   *)
(* out of its loop: main() keeps awaiting its tasks, so that every cycle   *)
(* is followed by its sleep and another cycle.                             *)
(***************************************************************************)
C18_ScanLoopNeverStops == main_task \in {"gather", "interrupted"}

(***************************************************************************)
(* C19.  While run_detection is inside a call of the classifier or of a    *)
(* sink, a producer can put its next record and the consumer can get the   *)
(* next queued record.                                                     *)
(***************************************************************************)
C19_CallsDoNotBlock ==
    (Running /\ scanner = "calls") =>
        /\ Len(puts) < MaxTicks => ENABLED FakeProducer
        /\ (queue # <<>> /\ consumer = "get") => ENABLED ConsumerGet

(***************************************************************************)
(* C20.  A step of run_detection (a cycle with its signals and alerts, the *)
(* return of its calls, the end of its sleep) leaves latest_prices and     *)
(* price_history as they were; the store changes in the two writes of      *)
(* update_data only, which leave the scanner and its output alone.         *)
(***************************************************************************)
C20_OnlyUpdateDataMutates ==
    [][/\ scanner' # scanner => store' = store
       /\ scan_out' # scan_out => store' = store
       /\ store' # store =>
             /\ consumer \in {"quote", "history"}
             /\ consumer' # consumer
             /\ scanner' = scanner]_vars

\* a cycle has emitted a signal and sent its alerts over a store that holds a
\* quote below min_volume
C20_Witness ==
    /\ scanner = "calls"
    /\ signals # <<>>
    /\ deliveries # <<>>
    /\ \E pair \in StoredPairs : QuoteAt(pair[1], pair[2]).volume.n < min_volume

(***************************************************************************)
(* C21.  In every cycle the classifier is consulted only for an asset that *)
(* passed the threshold gate: every asset the cycle's classifier log names *)
(* has two quotes of volume min_volume or more, a lowest price that is not *)
(* 0, and a spread that meets spread_threshold and the volatility term.    *)
(***************************************************************************)
C21_ClassifierOnlyAfterGate ==
    [][ScanStep =>
        \A k \in 1..Len(ml_log') : PassesGate(ml_log'[k].asset)]_vars

(***************************************************************************)
(* data_consumer and update_data under every record the queue may hold.    *)
(* The queue starts with MaxTicks records put before the consumer first    *)
(* ran: records of fake_data_producer (one of them observed long before),  *)
(* the common format with one field left out, what normalize_data returns  *)
(* for a Kraken ticker, for Binance tickers whose "c" or "v" is no number  *)
(* and for a source it does not know, and a Coinbase record.               *)
(***************************************************************************)
Fields == {"exchange", "asset", "price", "volume", "timestamp"}
Without(f) == [fake_data("binance", "ETH-USD", 105, 100, 10) EXCEPT ![f] = None]

ConsumerRecords ==
    {fake_data("binance", "ETH-USD", 100, 100, 10),
     fake_data("kraken", "ETH-USD", 115, 100, 1)}
    \cup {Without(f) : f \in Fields}
    \cup {normalize_data("kraken", Message(Str("BTC-USD"), Num(100), Num(60), None)),
          normalize_data("binance", Message(Str("BTC-USD"), Str("n/a"), Num(60), Num(10000))),
          normalize_data("binance", Message(Str("BTC-USD"), Num(100), Str("n/a"), Num(10000))),
          normalize_data("bybit", Message(Str("BTC-USD"), Num(100), Num(60), Num(10000))),
          normalize_data("coinbase", Message(Str("BTC-USD"), Num(105), Num(60), Str("2024-01-01T00:00:00Z")))}

ConsumerInit ==
    /\ queue \in [1..MaxTicks -> ConsumerRecords]
    /\ puts = queue
    /\ calls = <<>>
    /\ latest_prices = <<>>
    /\ price_history = <<>>
    /\ ml_model = None
    /\ consumer = "get"
    /\ normalized_data = None
    /\ scanner = "sleep"
    /\ signals = <<>>
    /\ predict_calls = <<>>
    /\ ml_log = <<>>
    /\ deliveries = <<>>
    /\ main_task = "gather"

ConsumerNext ==
    \/ ConsumerGet
    \/ UpdateQuote
    \/ UpdateHistory
    \/ MainExit

ConsumerSpec == ConsumerInit /\ [][ConsumerNext]_vars

(***************************************************************************)
(* C22.  A record that lacks asset, exchange, price, volume or timestamp   *)
(* is dropped by update_data: the step that hands it over leaves           *)
(* latest_prices and price_history as they were and takes the consumer     *)
(* back to queue.get() with no write pending and no exception; and at all  *)
(* times each asset of the store, each stored quote and the length of each *)
(* history come from handed-over records that lack no field.               *)
(***************************************************************************)
MissingField(nd) == \E f \in Fields : nd[f] = None
Whole(nds) == SelectSeq(nds, LAMBDA nd : ~MissingField(nd))

StoreFromWholeRecords ==
    /\ \A asset \in DictKeys(latest_prices) \cup DictKeys(price_history) :
          OfAsset(Whole(calls), asset) # <<>>
    /\ \A pair \in StoredPairs : OfPair(Whole(calls), pair[1], pair[2]) # <<>>
    /\ \A i \in 1..Len(price_history) :
          Len(price_history[i][2]) <= Len(OfAsset(Whole(calls), price_history[i][1]))

C22_IncompleteDropped ==
    /\ []StoreFromWholeRecords
    /\ [][(calls' # calls /\ MissingField(Head(queue))) =>
            /\ store' = store
            /\ consumer' = "get"
            /\ main_task' = main_task]_vars

\* the queue held a record without exchange and one without asset, price,
\* volume and timestamp; both were handed over and dropped, and the store
\* holds the one record that lacked nothing
C22_Witness ==
    /\ consumer = "get"
    /\ queue = <<>>
    /\ \A f \in Fields : \E nd \in Range(calls) : nd[f] = None
    /\ Len(Whole(calls)) = 1
    /\ Len(latest_prices) = 1
    /\ Len(price_history) = 1

(***************************************************************************)
(* C23.  In every cycle, an asset whose history holds fewer than two       *)
(* prices, or prices of mean 0 (stdev / mean raises), is evaluated without *)
(* a volatility: its evaluation goes on to predict_signal whenever it has  *)
(* two quotes of volume min_volume or more and a lowest price that is not  *)
(* 0, it gets a signal exactly when moreover its spread is spread_threshold*)
(* or more and it is confirmed, and that signal carries no volatility.     *)
(* The signal of any other asset carries one.                              *)
(***************************************************************************)
VolatilityAbsent(asset) ==
    \/ Len(history_for(asset)) < 2
    \/ Sum(history_for(asset)) = 0

C23_AbsentVolatility ==
    [][ScanStep =>
        \A asset \in Assets :
            /\ VolatilityAbsent(asset) =>
                  /\ (Cardinality(ValidExchanges(asset)) >= 2 /\ MinPrice(asset) # 0)
                        => asset \in Range(predict_calls')
                  /\ (SpreadAlone(asset) /\ Confirmed(asset, ml_log'))
                        <=> SignalFor(asset, signals') # {}
            /\ \A k \in SignalFor(asset, signals') :
                  signals'[k].volatility.present <=> ~VolatilityAbsent(asset)]_vars

\* a cycle with a loaded classifier that confirmed an asset whose history
\* has mean 0: its signal carries no volatility
C23_Witness ==
    /\ scanner = "calls"
    /\ ~IsNone(ml_model)
    /\ \E k \in 1..Len(signals) :
          /\ VolatilityAbsent(signals[k].asset)
          /\ Len(history_for(signals[k].asset)) >= 2
          /\ signals[k].asset \in Range(predict_calls)
          /\ ~signals[k].volatility.present

(***************************************************************************)
(* C24.  A record observed more than latency_threshold before an earlier   *)
(* record of the run was stale when update_data got it, and its quote is   *)
(* stored all the same.  In every cycle the quotes that count are those of *)
(* volume min_volume or more, however old: an asset that passes the gate   *)
(* over them and is confirmed gets its signal, a signal buys at the lowest *)
(* and sells at the highest of their prices, and its latency is the mean   *)
(* of now - timestamp over exactly these quotes, rounded to milliseconds.  *)
(***************************************************************************)
StaleWhenHanded(i) ==
    \E j \in 1..(i - 1) :
        /\ Accepted(calls[j])
        /\ calls[j].timestamp.n - calls[i].timestamp.n > latency_threshold

StaleRecordsStored ==
    \A i \in 1..Len(calls) :
        (/\ Accepted(calls[i])
         /\ StaleWhenHanded(i)
         /\ \A j \in (i + 1)..Len(calls) :
               Accepted(calls[j]) =>
                   (calls[j].asset # calls[i].asset \/ calls[j].exchange # calls[i].exchange))
        => /\ <<calls[i].asset, calls[i].exchange>> \in StoredPairs
           /\ QuoteAt(calls[i].asset, calls[i].exchange) = QuoteOf(calls[i])

\* the sum of now - timestamp over the quotes of volume min_volume or more
LatencySum(asset, now) ==
    LET qs == DictGet(latest_prices, asset)
    IN  SumSeq([i \in 1..Len(qs) |->
                   IF qs[i][2].volume.n >= min_volume
                   THEN now - qs[i][2].timestamp.n ELSE 0])

LatencyIsMean(sg) ==
    LET n == Cardinality(ValidExchanges(sg.asset))
    IN  2 * Abs(sg.latency * n - 1000 * LatencySum(sg.asset, sg.timestamp)) <= n

C24_StalenessNeverExcludes ==
    /\ []StaleRecordsStored
    /\ [][ScanStep =>
            /\ \A asset \in Assets :
                  (PassesGate(asset) /\ Confirmed(asset, ml_log')) =>
                      SignalFor(asset, signals') # {}
            /\ \A k \in 1..Len(signals') :
                  /\ MinMaxOfValid(signals'[k])
                  /\ LatencyIsMean(signals'[k])]_vars

\* a signal that sells at a quote observed 11 s before the scan, next to a
\* quote observed at the time of the scan and a Chainlink quote of volume 0:
\* the latency is the mean of 0 s and 11 s
C24_Witness ==
    /\ scanner = "calls"
    /\ \E k \in 1..Len(signals) :
          LET sg == signals[k]
              sold == QuoteAt(sg.asset, sg.sell_exchange)
              bought == QuoteAt(sg.asset, sg.buy_exchange)
          IN  /\ sg.timestamp - sold.timestamp.n > latency_threshold
              /\ sg.timestamp - bought.timestamp.n <= latency_threshold
              /\ Cardinality(ValidExchanges(sg.asset)) = 2
              /\ Len(DictGet(latest_prices, sg.asset)) = 3
              /\ sg.latency = 5500
    /\ \E i \in 1..Len(calls) : Accepted(calls[i]) /\ StaleWhenHanded(i)

(***************************************************************************)
(* C25.  In every cycle, an asset whose lowest price among its quotes of   *)
(* volume min_volume or more is 0 gets no signal, and its evaluation stops *)
(* before the spread is computed: it does not reach predict_signal and     *)
(* raises nothing, so the cycle goes on, every other asset that passes the *)
(* gate and is confirmed gets its signal, and run_detection comes to its   *)
(* sleep with main() still awaiting the tasks.                             *)
(***************************************************************************)
LowestIsZero(asset) ==
    /\ Cardinality(ValidExchanges(asset)) >= 2
    /\ MinPrice(asset) = 0

C25_ZeroPriceGuard ==
    [][ScanStep =>
        \A asset \in Assets :
            LowestIsZero(asset) =>
                /\ SignalFor(asset, signals') = {}
                /\ asset \notin Range(predict_calls')
                /\ \A k \in 1..Len(ml_log') : ml_log'[k].asset # asset
                /\ OthersGetTheirSignal(asset, signals', ml_log')
                /\ scanner' \in {"calls", "sleep"}
                /\ main_task' = "gather"]_vars

\* a cycle over an asset quoted 0, 100 and 115 at volumes that count, which
\* got no signal, and the asset after it in latest_prices, which got its own
C25_Witness ==
    /\ scanner = "calls"
    /\ Len(latest_prices) = 2
    /\ Len(signals) = 1
    /\ LET asset == latest_prices[1][1]
       IN  /\ LowestIsZero(asset)
           /\ MaxPrice(asset) = 115
           /\ Cardinality(ValidExchanges(asset)) = 3
           /\ asset \notin Range(predict_calls)
    /\ signals[1].asset = latest_prices[2][1]

(***************************************************************************)
(* C26.  Every record a connector puts on the queue carries a timestamp,   *)
(* so update_data drops no record for the lack of one: each record handed  *)
(* over with its asset, exchange, price and volume has a timestamp too.    *)
(***************************************************************************)
C26_TicksCarryTimestamp ==
    /\ \A i \in 1..Len(puts) : ~IsNone(puts[i].timestamp)
    /\ \A i \in 1..Len(calls) :
          (\A f \in Fields \ {"timestamp"} : calls[i][f] # None)
              => ~IsNone(calls[i].timestamp)

(***************************************************************************)
(* C27.  The shape of the store.  The assets of latest_prices are those of *)
(* the accepted records whose quote is written, the assets of              *)
(* price_history those of the accepted records whose price is appended;    *)
(* the two are the same assets whenever update_data is not between its two *)
(* writes, where no other task runs.  Each asset of latest_prices has a    *)
(* quote or more; each history is non-empty, as long as the smaller of     *)
(* history_window and the number of accepted records of the asset, and     *)
(* ends with the price of the last of them.                                *)
(***************************************************************************)
AssetsOf(nds) == {nds[i].asset : i \in 1..Len(nds)}
Min(a, b) == IF a <= b THEN a ELSE b

C27_StoreShape ==
    /\ DictKeys(latest_prices) = AssetsOf(QuoteWritten)
    /\ DictKeys(price_history) = AssetsOf(PriceAppended)
    /\ consumer # "history" => DictKeys(latest_prices) = DictKeys(price_history)
    /\ \A i \in 1..Len(latest_prices) : latest_prices[i][2] # <<>>
    /\ \A i \in 1..Len(price_history) :
          LET h == price_history[i][2]
              accepted == OfAsset(PriceAppended, price_history[i][1])
          IN  /\ h # <<>>
              /\ Len(h) = Min(Len(accepted), history_window)
              /\ LastOf(h) = LastOf(accepted).price

\* more accepted records of an asset than the window holds, all applied
C27_Witness ==
    /\ consumer = "get"
    /\ queue = <<>>
    /\ \E i \in 1..Len(price_history) :
          /\ Len(OfAsset(PriceAppended, price_history[i][1])) > history_window
          /\ Len(price_history[i][2]) = history_window
          /\ DictHas(latest_prices, price_history[i][1])

(***************************************************************************)
(* C28.  In every cycle, a signal buys at no more than it sells and both   *)
(* its exchanges quote a volume of min_volume or more; with a              *)
(* spread_threshold above 0 and prices above 0 it buys and sells on two    *)
(* different exchanges and sells at more than it buys, and an asset whose  *)
(* quotes of volume min_volume or more all carry one price gets no signal. *)
(***************************************************************************)
PricesPositive(asset) == \A p \in ValidPrices(asset) : p > 0

WellFormed(sg) ==
    /\ sg.buy_price <= sg.sell_price
    /\ QuoteAt(sg.asset, sg.buy_exchange).volume.n >= min_volume
    /\ QuoteAt(sg.asset, sg.sell_exchange).volume.n >= min_volume
    /\ (spread_threshold > 0 /\ PricesPositive(sg.asset)) =>
          /\ sg.buy_exchange # sg.sell_exchange
          /\ sg.sell_price > sg.buy_price

C28_SignalWellFormed ==
    [][ScanStep =>
        /\ \A k \in 1..Len(signals') : WellFormed(signals'[k])
        /\ \A asset \in Assets :
              (spread_threshold > 0 /\ PricesPositive(asset)
                   /\ Cardinality(ValidPrices(asset)) = 1)
                  => SignalFor(asset, signals') = {}]_vars

\* a cycle that evaluated an asset quoted at one price by two exchanges, with
\* no volatility in its history, and gave it no signal, while another asset
\* got a signal across two exchanges
C28_Witness ==
    /\ scanner = "calls"
    /\ \E asset \in Assets :
          /\ Cardinality(ValidExchanges(asset)) = 2
          /\ Cardinality(ValidPrices(asset)) = 1
          /\ PricesPositive(asset)
          /\ asset \in Range(predict_calls)
          /\ SignalFor(asset, signals) = {}
    /\ \E k \in 1..Len(signals) :
          /\ signals[k].buy_exchange # signals[k].sell_exchange
          /\ signals[k].sell_price > signals[k].buy_price

(***************************************************************************)
(* The detector left alone: no classifier is loaded, no record arrives,    *)
(* and run_detection goes through cycle after cycle, at the time the       *)
(* records were put or an hour later, over a store that holds what         *)
(* update_data made of a run of records.                                   *)
(***************************************************************************)
LaterClock == {12, 3600}

ReplayInit ==
    /\ DetectorInit
    /\ IsNone(ml_model)

ReplayScan ==
    \E now \in LaterClock :
    \E email \in SinkAnswers :
    \E slack \in SinkAnswers :
        run_detection(now, [i \in 1..Len(latest_prices) |-> [raises |-> FALSE, probability |-> 0]],
                      [i \in 1..Len(latest_prices) |-> email],
                      [i \in 1..Len(latest_prices) |-> slack])

ReplayNext ==
    \/ ReplayScan
    \/ CallsReturn
    \/ Wake

ReplaySpec == ReplayInit /\ [][ReplayNext]_vars

(***************************************************************************)
(* C29.  With no classifier and no record applied, no step of the scanner  *)
(* and no lapse of time changes a stored quote, and a cycle that follows   *)
(* another emits signals for the same assets with the same buy and sell    *)
(* exchanges and prices as the one before, whatever the time between them. *)
(* A cycle follows another when the one before left calls of               *)
(* predict_signal behind; a cycle that makes none emits nothing, as did    *)
(* any before it over the same store.                                      *)
(***************************************************************************)
Core(sgs) ==
    {[asset |-> sgs[k].asset,
      buy_exchange |-> sgs[k].buy_exchange, sell_exchange |-> sgs[k].sell_exchange,
      buy_price |-> sgs[k].buy_price, sell_price |-> sgs[k].sell_price] : k \in 1..Len(sgs)}

FollowsACycle == predict_calls # <<>> \/ predict_calls' = <<>>

C29_NoExpiryNoDedup ==
    [][/\ store' = store
       /\ (ScanStep /\ IsNone(ml_model) /\ FollowsACycle) =>
             /\ Core(signals') = Core(signals)
             /\ Len(signals') = Len(signals)]_vars

\* a cycle at time 12 emitted two signals, its calls returned, the sleep is
\* over and the next cycle is due, over quotes of time 10 and before
C29_Witness ==
    /\ scanner = "scan"
    /\ IsNone(ml_model)
    /\ Len(signals) = 2
    /\ \A k \in 1..2 : signals[k].timestamp = 12
    /\ predict_calls # <<>>

=============================================================================
